---------------------------- MODULE Spec2Model ----------------------------
(***************************************************************************)
(* A model of the recommender system: the batch side (DataProcessor,       *)
(* DataLoader), the Redis store (RedisService) and the serving side        *)
(* (RecommendationService).                                                *)
(*                                                                         *)
(* Strings that the code takes apart (item names, Redis keys) are          *)
(* sequences of tokens: <<"item:", "A">> is the key "item:A", <<" ", "A">> *)
(* is the cell " A".  Floats are exact rationals: a popularity score is    *)
(* the fraction num/den, a cosine is sgn * sqrt(sq/den).                   *)
(***************************************************************************)
EXTENDS Integers, Sequences, FiniteSets, TLC

VARIABLES
    df,                 \* DataProcessor.df: the rows, each [order_id, item_name]
    pc,                 \* the batch job's position: "new", "loaded", "built", "stored"
    order_items,        \* DataProcessor.order_items: order id -> list of item names
    item_frequency,     \* DataProcessor.item_frequency: a Counter, in insertion order
    item_cooccurrence,  \* DataProcessor.item_cooccurrence: item -> (item -> count)
    redis,              \* the Redis keyspace: key -> value
    resp,               \* the answer to the last serving request
    run,                \* a loader script's run: its position and what it holds
    self_item_embeddings,   \* the embedding service's self.item_embeddings
    scan                \* a get_all_embeddings call on its way through the keys

vars == <<df, pc, order_items, item_frequency, item_cooccurrence, redis, resp,
          run, self_item_embeddings, scan>>

reloadVars == <<run, self_item_embeddings, scan>>

\* ------------------------------------------------------------------ bounds

MaxRows == 3
MaxLimit == 2
MaxBasket == 2
MaxRuns == 2

\* ------------------------------------------------------- program constants

max_frequency == 30245
PopularTop == 100

\* ------------------------------------------------------------------ values

NaN == <<"NaN">>
Blank == <<" ">>
ItemNames == {<<"A">>, <<"B">>, <<"C">>}
OrderIds == <<"o1", "o2">>
NaNOrder == "NaN"

\* What a cell of the CSV can hold once pandas has read it.
RawItemCells == ItemNames \cup {NaN, Blank}
RawOrderCells == {OrderIds[i] : i \in 1..Len(OrderIds)} \cup {NaNOrder}
RawRows == [order_id : RawOrderCells, item_name : RawItemCells]

Limits == (-1)..MaxLimit

EmptyMap == << >>
NoResp == [op |-> "none"]

\* No loader has run, no scan is under way, the embedding service is new.
RunIdle ==
    [pc |-> "idle", variant |-> "none", runs |-> 0, embeddings |-> EmptyMap,
     todo |-> << >>, history |-> << >>, written_by |-> EmptyMap, before |-> EmptyMap]
ScanIdle == [pc |-> "idle"]
ReloadIdle == run = RunIdle /\ self_item_embeddings = EmptyMap /\ scan = ScanIdle

Range(s) == {s[i] : i \in 1..Len(s)}
Min2(a, b) == IF a <= b THEN a ELSE b
Max2(a, b) == IF a >= b THEN a ELSE b

\* seq[:limit] of Python, negative limits included.
PySlice(seq, limit) ==
    LET n == IF limit >= 0 THEN Min2(limit, Len(seq)) ELSE Max2(Len(seq) + limit, 0)
    IN SubSeq(seq, 1, n)

\* ---------------------------------------------------- DataProcessor.load_data

RECURSIVE LStrip(_)
LStrip(s) == IF s # << >> /\ Head(s) = " " THEN LStrip(Tail(s)) ELSE s

RECURSIVE RStrip(_)
RStrip(s) ==
    IF s # << >> /\ s[Len(s)] = " " THEN RStrip(SubSeq(s, 1, Len(s) - 1)) ELSE s

\* Series.str.strip(): a missing value stays missing.
StrStrip(cell) == IF cell = NaN THEN NaN ELSE RStrip(LStrip(cell))

\* DataFrame.dropna(): a row with any missing cell goes.
DropNa(rows) ==
    SelectSeq(rows, LAMBDA r : r.order_id # NaNOrder /\ r.item_name # NaN)

load_data(rows) ==
    DropNa([i \in 1..Len(rows) |->
              [order_id |-> rows[i].order_id, item_name |-> StrStrip(rows[i].item_name)]])

\* ------------------------------------ DataProcessor.build_cooccurrence_matrix

\* df.groupby('order_id'): the order ids present, in sorted order ...
GroupKeys(rows) ==
    SelectSeq(OrderIds, LAMBDA o : \E i \in 1..Len(rows) : rows[i].order_id = o)

\* ... and group['item_name'].tolist(): the order's item names in row order.
GroupItems(rows, o) ==
    LET mine == SelectSeq(rows, LAMBDA r : r.order_id = o)
    IN [i \in 1..Len(mine) |-> mine[i].item_name]

\* Counter: self.item_frequency[item] += 1, a new key going last.
CounterInc(freq, item) ==
    IF \E k \in 1..Len(freq) : freq[k].item = item
    THEN [k \in 1..Len(freq) |->
            IF freq[k].item = item
            THEN [item |-> item, frequency |-> freq[k].frequency + 1]
            ELSE freq[k]]
    ELSE Append(freq, [item |-> item, frequency |-> 1])

RECURSIVE CountFrequencies_once(_, _)
CountFrequencies_once(freq, items) ==
    IF items = << >> THEN freq
    ELSE LET rest == SelectSeq(Tail(items), LAMBDA x : x # Head(items))
         IN CountFrequencies_once(CounterInc(freq, Head(items)), rest)

\* for item in items: self.item_frequency[item] += 1
RECURSIVE CountFrequencies(_, _)
CountFrequencies(freq, items) ==
    IF items = << >> THEN freq
    ELSE CountFrequencies(CounterInc(freq, Head(items)), Tail(items))

\* self.item_cooccurrence[item1][item2] += 1 on a defaultdict of defaultdicts:
\* both keys come into being when first touched.
CoocInc(cooc, item1, item2) ==
    LET row == IF item1 \in DOMAIN cooc THEN cooc[item1] ELSE EmptyMap
        old == IF item2 \in DOMAIN row THEN row[item2] ELSE 0
    IN (item1 :> ((item2 :> old + 1) @@ row)) @@ cooc

PairCounted_upper(i, j) == i < j

\* if i != j:  # Don't count self-co-occurrence
PairCounted(i, j) == i # j

RECURSIVE CountCooccurrences_rows(_, _, _)
CountCooccurrences_rows(cooc, items, k) ==
    LET n == Len(items)
        i == ((k - 1) \div n) + 1
        j == ((k - 1) % n) + 1
        touched == IF items[i] \in DOMAIN cooc THEN cooc
                   ELSE (items[i] :> EmptyMap) @@ cooc
    IN IF k > n * n THEN cooc
       ELSE CountCooccurrences_rows(
                IF PairCounted(i, j) THEN CoocInc(touched, items[i], items[j])
                ELSE touched,
                items, k + 1)

\* The two nested enumerate loops, position k standing for the pair
\* (i, j) = ((k-1) \div n + 1, (k-1) % n + 1).
RECURSIVE CountCooccurrences(_, _, _)
CountCooccurrences(cooc, items, k) ==
    LET n == Len(items)
        i == ((k - 1) \div n) + 1
        j == ((k - 1) % n) + 1
    IN IF k > n * n THEN cooc
       ELSE CountCooccurrences(
                IF PairCounted(i, j) THEN CoocInc(cooc, items[i], items[j]) ELSE cooc,
                items, k + 1)

\* One iteration of the loop over the groups.
BuildOrder(t, rows, o) ==
    LET items == GroupItems(rows, o)
    IN [order_items |-> (o :> items) @@ t.order_items,
        item_frequency |-> CountFrequencies(t.item_frequency, items),
        item_cooccurrence |-> CountCooccurrences(t.item_cooccurrence, items, 1)]

RECURSIVE BuildGroups(_, _, _)
BuildGroups(t, rows, keys) ==
    IF keys = << >> THEN t
    ELSE BuildGroups(BuildOrder(t, rows, Head(keys)), rows, Tail(keys))

build_cooccurrence_matrix(t, rows) == BuildGroups(t, rows, GroupKeys(rows))

NewTables ==
    [order_items |-> EmptyMap, item_frequency |-> << >>, item_cooccurrence |-> EmptyMap]

\* ------------------------------------------- DataProcessor.get_popular_items

\* Where sorted(..., reverse=True), which is stable, puts one more element:
\* after every element that is not smaller.
RECURSIVE InsertDesc(_, _)
InsertDesc(sorted, e) ==
    IF sorted = << >> THEN <<e>>
    ELSE IF Head(sorted).frequency >= e.frequency
         THEN <<Head(sorted)>> \o InsertDesc(Tail(sorted), e)
         ELSE <<e>> \o sorted

RECURSIVE SortByFrequency_asc(_)
SortByFrequency_asc(freq) ==
    IF freq = << >> THEN << >>
    ELSE LET rest == SortByFrequency_asc(SubSeq(freq, 1, Len(freq) - 1))
             e == freq[Len(freq)]
             RECURSIVE Ins(_)
             Ins(s) == IF s = << >> THEN <<e>>
                       ELSE IF Head(s).frequency <= e.frequency
                            THEN <<Head(s)>> \o Ins(Tail(s))
                            ELSE <<e>> \o s
         IN Ins(rest)

\* sorted(self.item_frequency.items(), key=lambda x: x[1], reverse=True)
RECURSIVE SortByFrequency(_)
SortByFrequency(freq) ==
    IF freq = << >> THEN << >>
    ELSE InsertDesc(SortByFrequency(SubSeq(freq, 1, Len(freq) - 1)), freq[Len(freq)])

DataProcessor_get_popular_items(freq, limit) == PySlice(SortByFrequency(freq), limit)

\* ------------------------------------------ DataLoader._store_popular_items

\* str(x) of a dict of lists, strings and ints, and eval of it.
PyStr(x) == <<"repr", x>>
PyEval(s) == s[2]

StringValue(s) == [type |-> "string", val |-> s]

PopularKey == <<"popular_items">>

popular_data(freq) ==
    LET popular_items == DataProcessor_get_popular_items(freq, PopularTop)
    IN [items |-> popular_items, total_items |-> Len(popular_items)]

_store_popular_items(store, freq) ==
    (PopularKey :> StringValue(PyStr(popular_data(freq)))) @@ store

\* --------------------------------------------- RedisService.get_popular_items

\* A GET of a key that holds a hash fails (WRONGTYPE); the except clause
\* answers [].
RedisService_get_popular_items(store, limit) ==
    IF PopularKey \notin DOMAIN store THEN << >>
    ELSE IF store[PopularKey].type # "string" THEN << >>
    ELSE PySlice(PyEval(store[PopularKey].val).items, limit)

\* ------------------------------------- RecommendationService.get_popular_items

\* min(frequency / max_frequency, 1.0)
PopularityScore(frequency) ==
    IF frequency >= max_frequency THEN [num |-> 1, den |-> 1]
    ELSE [num |-> frequency, den |-> max_frequency]

RecommendationService_get_popular_items(store, limit) ==
    LET popular == RedisService_get_popular_items(store, limit)
    IN [i \in 1..Len(popular) |->
          [item_name |-> popular[i].item,
           similarity_score |-> PopularityScore(popular[i].frequency),
           reason |-> <<"Popular item", popular[i].frequency>>,
           popularity_rank |-> i]]

\* -------------------------------------------------- RedisService: embeddings

Vectors == {<<1, 0>>, <<-1, 0>>, <<1, 1>>, <<0, 0>>, <<1>>}

\* The names the embedding requests are made with; one of them holds the
\* text of the key prefix.
EmbeddingItems == {<<"A">>, <<"B">>, <<"item:", "A">>}

SvdMetadata == [approach |-> "svd"]
Metadatas == {SvdMetadata}

None == [is_none |-> TRUE]

\* json.dumps / json.loads of lists of numbers and of dicts; a hash field
\* holds a number as its decimal text, which int() reads back.
JsonDumps(x) == <<"json", x>>
JsonLoads(s) == s[2]
DecimalText(n) == <<"str", n>>
ParseInt(s) == s[2]

KeyPrefix(embedding_type) == IF embedding_type = "huggingface" THEN "hf:" ELSE "item:"

ItemKey(item_name, embedding_type) == <<KeyPrefix(embedding_type)>> \o item_name

EmbeddingFields(embedding, metadata) ==
    [embedding |-> JsonDumps(embedding),
     metadata |-> JsonDumps(IF metadata = None THEN EmptyMap ELSE metadata),
     embedding_dimension |-> DecimalText(Len(embedding)),
     last_updated |-> "now"]

HSet_keep(store, key, fields) ==
    LET old == IF key \in DOMAIN store THEN store[key].fields ELSE EmptyMap
    IN (key :> [type |-> "hash", fields |-> old @@ fields]) @@ store

\* HSET key mapping: the fields given replace those of the same name.
HSet(store, key, fields) ==
    LET old == IF key \in DOMAIN store THEN store[key].fields ELSE EmptyMap
    IN (key :> [type |-> "hash", fields |-> fields @@ old]) @@ store

\* RedisService.set_item_embedding; HSET on a key that is no hash fails and
\* the method raises, the store as it was.
set_item_embedding(store, item_name, embedding, metadata) ==
    LET key == ItemKey(item_name, "cooccurrence")
    IN IF key \in DOMAIN store /\ store[key].type # "hash" THEN store
       ELSE HSet(store, key, EmbeddingFields(embedding, metadata))

\* What both readers make of the fields of one hash.
EmbeddingRecord(fields, embedding_type) ==
    [embedding |-> IF "embedding" \in DOMAIN fields
                   THEN JsonLoads(fields.embedding) ELSE << >>,
     metadata |-> IF "metadata" \in DOMAIN fields
                  THEN JsonLoads(fields.metadata) ELSE EmptyMap,
     embedding_dimension |-> IF "embedding_dimension" \in DOMAIN fields
                             THEN ParseInt(fields.embedding_dimension) ELSE 0,
     last_updated |-> IF "last_updated" \in DOMAIN fields
                      THEN fields.last_updated ELSE "",
     embedding_type |-> embedding_type]

\* RedisService.get_item_embedding: HGETALL of a missing key is empty, of a
\* key that is no hash an error; both are answered None.
get_item_embedding(store, item_name, embedding_type) ==
    LET key == ItemKey(item_name, embedding_type)
    IN IF key \notin DOMAIN store THEN None
       ELSE IF store[key].type # "hash" THEN None
       ELSE IF DOMAIN store[key].fields = {} THEN None
       ELSE EmbeddingRecord(store[key].fields, embedding_type)

\* KEYS "item:*" / "hf:*": the keys that start with the prefix ...
MatchingKeys(store, embedding_type) ==
    {k \in DOMAIN store : k # << >> /\ Head(k) = KeyPrefix(embedding_type)}

\* ... which Redis returns in no particular order.
KeyOrders(keys) ==
    {f \in [1..Cardinality(keys) -> keys] :
        \A i, j \in 1..Cardinality(keys) : i # j => f[i] # f[j]}

\* key.replace(key_prefix, ""): every occurrence of the prefix goes.
StrReplacePrefix(key, prefix) == SelectSeq(key, LAMBDA t : t # prefix)

\* embeddings[item_name] = ... on a dict: a name already there keeps its
\* place and takes the new value.
DictSet(dict, name, data) ==
    IF \E k \in 1..Len(dict) : dict[k].name = name
    THEN [k \in 1..Len(dict) |->
            IF dict[k].name = name THEN [name |-> name, data |-> data] ELSE dict[k]]
    ELSE Append(dict, [name |-> name, data |-> data])

RECURSIVE ScanKeys_abort(_, _, _, _)
ScanKeys_abort(store, keys, embedding_type, embeddings) ==
    IF keys = << >> THEN embeddings
    ELSE LET key == Head(keys)
             item_name == StrReplacePrefix(key, KeyPrefix(embedding_type))
             value == store[key]
         IN IF value.type # "hash" \/ "embedding" \notin DOMAIN value.fields
            THEN << >>
            ELSE ScanKeys_abort(store, Tail(keys), embedding_type,
                    DictSet(embeddings, item_name,
                            EmbeddingRecord(value.fields, embedding_type)))

\* RedisService.get_all_embeddings, the loop over the keys in the order
\* KEYS returned them.
RECURSIVE ScanKeys(_, _, _, _)
ScanKeys(store, keys, embedding_type, embeddings) ==
    IF keys = << >> THEN embeddings
    ELSE LET key == Head(keys)
             item_name == StrReplacePrefix(key, KeyPrefix(embedding_type))
             value == store[key]
         IN ScanKeys(store, Tail(keys), embedding_type,
                IF value.type # "hash" THEN embeddings
                ELSE IF "embedding" \notin DOMAIN value.fields THEN embeddings
                ELSE DictSet(embeddings, item_name,
                             EmbeddingRecord(value.fields, embedding_type)))

get_all_embeddings(store, embedding_type, keys) ==
    ScanKeys(store, keys, embedding_type, << >>)

\* --------------------------------- RedisService._calculate_cosine_similarity

RECURSIVE Dot(_, _)
Dot(v, w) == IF v = << >> THEN 0 ELSE Head(v) * Head(w) + Dot(Tail(v), Tail(w))

RECURSIVE Gcd(_, _)
Gcd(a, b) == IF b = 0 THEN a ELSE Gcd(b, a % b)

Sign(x) == IF x > 0 THEN 1 ELSE IF x < 0 THEN -1 ELSE 0

\* The float sgn * sqrt(sq / den), sq / den in lowest terms.
ZeroScore == [sgn |-> 0, sq |-> 0, den |-> 1]

ScoreLess(x, y) == x.sgn * x.sq * y.den < y.sgn * y.sq * x.den

_calculate_cosine_similarity(vec1, vec2) ==
    IF Len(vec1) # Len(vec2) THEN ZeroScore
    ELSE LET dot_product == Dot(vec1, vec2)
             norm1sq == Dot(vec1, vec1)
             norm2sq == Dot(vec2, vec2)
             g == Gcd(dot_product * dot_product, norm1sq * norm2sq)
         IN IF norm1sq = 0 \/ norm2sq = 0 THEN ZeroScore
            ELSE IF dot_product = 0 THEN ZeroScore
            ELSE [sgn |-> Sign(dot_product),
                  sq |-> (dot_product * dot_product) \div g,
                  den |-> (norm1sq * norm2sq) \div g]

\* ------------------------------ RedisService.find_similar_items_by_embedding

\* similarities.sort(key=..., reverse=True): stable, so one more element goes
\* after every element that is not smaller.
RECURSIVE InsertBySimilarity(_, _)
InsertBySimilarity(sorted, e) ==
    IF sorted = << >> THEN <<e>>
    ELSE IF ~ScoreLess(Head(sorted).similarity, e.similarity)
         THEN <<Head(sorted)>> \o InsertBySimilarity(Tail(sorted), e)
         ELSE <<e>> \o sorted

RECURSIVE SortBySimilarity(_)
SortBySimilarity(sims) ==
    IF sims = << >> THEN << >>
    ELSE InsertBySimilarity(SortBySimilarity(SubSeq(sims, 1, Len(sims) - 1)),
                            sims[Len(sims)])

IsCandidate_all(item_name, target_item) == TRUE

\* if item_name != target_item:
IsCandidate(item_name, target_item) == item_name # target_item

Similarities(all_embeddings, target_item, target_embedding, embedding_type) ==
    LET others == SelectSeq(all_embeddings,
                            LAMBDA e : IsCandidate(e.name, target_item))
    IN [k \in 1..Len(others) |->
          [item |-> others[k].name,
           similarity |-> _calculate_cosine_similarity(target_embedding,
                                                       others[k].data.embedding),
           metadata |-> others[k].data.metadata,
           embedding_type |-> embedding_type]]

TargetMissing_scan(target_data) == FALSE

\* if not target_data: return []
TargetMissing(target_data) == target_data = None

find_similar_items_by_embedding(store, target_item, limit, embedding_type, keys) ==
    LET target_data == get_item_embedding(store, target_item, embedding_type)
    IN IF TargetMissing(target_data) THEN << >>
       ELSE PySlice(
              SortBySimilarity(
                Similarities(get_all_embeddings(store, embedding_type, keys),
                             target_item,
                             IF target_data = None THEN << >> ELSE target_data.embedding,
                             embedding_type)),
              limit)

\* ------------------------------------ RecommendationService.get_similar_items

\* RecommendationItem.similarity_score: float = Field(..., ge=0.0, le=1.0)
\* (a NaN, den = 0, satisfies neither bound)
ScoreIsValid(score) == score.den > 0 /\ score.sgn >= 0 /\ score.sq <= score.den

SimilarRecommendations_fallback(store, similar_data, limit) ==
    IF similar_data = << >>
    THEN RecommendationService_get_popular_items(store, limit)
    ELSE IF \E k \in 1..Len(similar_data) : ~ScoreIsValid(similar_data[k].similarity)
    THEN << >>
    ELSE [k \in 1..Len(similar_data) |->
            [item_name |-> similar_data[k].item,
             similarity_score |-> similar_data[k].similarity,
             reason |-> <<"HuggingFace similarity", similar_data[k].similarity>>,
             popularity_rank |-> None]]

\* What the method answers once the store has answered similar_data: one
\* RecommendationItem per entry, or [] from the except clause when building
\* one of them fails validation.
SimilarRecommendations(store, similar_data, limit) ==
    IF \E k \in 1..Len(similar_data) : ~ScoreIsValid(similar_data[k].similarity)
    THEN << >>
    ELSE [k \in 1..Len(similar_data) |->
            [item_name |-> similar_data[k].item,
             similarity_score |-> similar_data[k].similarity,
             reason |-> <<"HuggingFace similarity", similar_data[k].similarity>>,
             popularity_rank |-> None]]

RecommendationService_get_similar_items(store, item_name, limit, keys) ==
    SimilarRecommendations(
        store,
        find_similar_items_by_embedding(store, item_name, limit, "cooccurrence", keys),
        limit)

\* --------------------------- RecommendationService.get_basket_recommendations

\* The baskets the basket requests are made with.
Baskets == UNION {[1..n -> EmbeddingItems] : n \in 0..MaxBasket}

RECURSIVE VecSum(_)
VecSum(vectors) ==
    IF Len(vectors) = 1 THEN vectors[1]
    ELSE LET rest == VecSum(Tail(vectors))
         IN [k \in 1..Len(rest) |-> vectors[1][k] + rest[k]]

Abs(x) == IF x < 0 THEN -x ELSE x

RECURSIVE GcdAll(_)
GcdAll(v) == IF v = << >> THEN 0 ELSE Gcd(Abs(Head(v)), GcdAll(Tail(v)))

\* np.mean(embeddings_array, axis=0) followed by the division by the norm:
\* the unit vector along the sum, held as the shortest integer vector of that
\* direction; the division 0/0 of a zero mean gives a vector of NaN.
NormalizedMean(vectors) ==
    LET total == VecSum(vectors)
        g == GcdAll(total)
    IN IF g = 0 THEN [nan |-> TRUE, v |-> total]
       ELSE [nan |-> FALSE, v |-> [k \in 1..Len(total) |-> total[k] \div g]]

\* The embeddings of the basket members that have one, in basket order.
BasketMemberEmbeddings(store, items) ==
    LET found == SelectSeq(items, LAMBDA item :
                    LET embedding_data == get_item_embedding(store, item, "cooccurrence")
                    IN embedding_data # None /\ embedding_data.embedding # << >>)
    IN [k \in 1..Len(found) |->
          get_item_embedding(store, found[k], "cooccurrence").embedding]

\* RecommendationService._create_basket_embedding; np.array of lists of
\* different lengths raises and the except clause answers None.
_create_basket_embedding(store, items) ==
    LET item_embeddings == BasketMemberEmbeddings(store, items)
    IN IF items = << >> THEN None
       ELSE IF item_embeddings = << >> THEN None
       ELSE IF \E k \in 1..Len(item_embeddings) :
                  Len(item_embeddings[k]) # Len(item_embeddings[1]) THEN None
       ELSE NormalizedMean(item_embeddings)

NanScore == [sgn |-> 0, sq |-> 0, den |-> 0]

\* RecommendationService.calculate_cosine_similarity: a NaN magnitude is not
\* == 0, so a NaN query scores NaN against every vector that is not zero.
calculate_cosine_similarity(vec1, vec2) ==
    IF Len(vec1.v) # Len(vec2) THEN ZeroScore
    ELSE IF vec1.nan THEN (IF Dot(vec2, vec2) = 0 THEN ZeroScore ELSE NanScore)
    ELSE _calculate_cosine_similarity(vec1.v, vec2)

\* RecommendationService._find_items_similar_to_embedding; a score that the
\* RecommendationItem model rejects makes the except clause answer [].
RankedSimilarities_skip(store, target_embedding, keys) ==
    LET all_embeddings == get_all_embeddings(store, "cooccurrence", keys)
        scored == SelectSeq(all_embeddings,
                      LAMBDA e : Len(e.data.embedding) = Len(target_embedding.v))
        similarities == [k \in 1..Len(scored) |->
                            [item |-> scored[k].name,
                             similarity |-> calculate_cosine_similarity(
                                                target_embedding, scored[k].data.embedding)]]
    IN SortBySimilarity(similarities)

\* The list similarities of _find_items_similar_to_embedding after its sort:
\* every entry of the scan with a non-empty embedding, scored and ranked.
RankedSimilarities(store, target_embedding, keys) ==
    LET all_embeddings == get_all_embeddings(store, "cooccurrence", keys)
        scored == SelectSeq(all_embeddings, LAMBDA e : e.data.embedding # << >>)
        similarities == [k \in 1..Len(scored) |->
                            [item |-> scored[k].name,
                             similarity |-> calculate_cosine_similarity(
                                                target_embedding, scored[k].data.embedding)]]
    IN SortBySimilarity(similarities)

_find_items_similar_to_embedding(store, target_embedding, limit, keys) ==
    LET top == PySlice(RankedSimilarities(store, target_embedding, keys), limit)
    IN IF \E k \in 1..Len(top) : ~ScoreIsValid(top[k].similarity) THEN << >>
       ELSE [k \in 1..Len(top) |->
               [item_name |-> top[k].item,
                similarity_score |-> top[k].similarity,
                reason |-> <<"Basket similarity", top[k].similarity>>,
                popularity_rank |-> None]]

\* [item for item in similar_items if item.item_name not in basket_set]
NotInBasket(recommendations, items) ==
    SelectSeq(recommendations, LAMBDA item : item.item_name \notin Range(items))

\* return await self.get_popular_items(limit)
BasketFallback(store, items, limit) == RecommendationService_get_popular_items(store, limit)

get_basket_recommendations(store, items, limit, keys) ==
    LET basket_embedding == _create_basket_embedding(store, items)
    IN IF basket_embedding = None THEN BasketFallback(store, items, limit)
       ELSE PySlice(
              NotInBasket(
                _find_items_similar_to_embedding(store, basket_embedding,
                                                 limit + Len(items), keys),
                items),
              limit)

\* ------------------------------------------------------------ the batch job

Datasets == UNION {[1..n -> RawRows] : n \in 0..MaxRows}

Init ==
    /\ df \in Datasets
    /\ pc = "new"
    /\ order_items = EmptyMap
    /\ item_frequency = << >>
    /\ item_cooccurrence = EmptyMap
    /\ redis = EmptyMap
    /\ resp = NoResp
    /\ ReloadIdle

LoadData ==
    /\ pc = "new"
    /\ df' = load_data(df)
    /\ pc' = "loaded"
    /\ UNCHANGED <<order_items, item_frequency, item_cooccurrence, redis, resp>>
    /\ UNCHANGED reloadVars

BuildCooccurrenceMatrix ==
    /\ pc = "loaded"
    /\ LET t == build_cooccurrence_matrix(
                    [order_items |-> order_items,
                     item_frequency |-> item_frequency,
                     item_cooccurrence |-> item_cooccurrence], df)
       IN /\ order_items' = t.order_items
          /\ item_frequency' = t.item_frequency
          /\ item_cooccurrence' = t.item_cooccurrence
    /\ pc' = "built"
    /\ UNCHANGED <<df, redis, resp>>
    /\ UNCHANGED reloadVars

StorePopularItems ==
    /\ pc = "built"
    /\ redis' = _store_popular_items(redis, item_frequency)
    /\ pc' = "stored"
    /\ resp' = NoResp
    /\ UNCHANGED <<df, order_items, item_frequency, item_cooccurrence>>
    /\ UNCHANGED reloadVars

GetPopularItems ==
    /\ \E limit \in Limits :
          resp' = [op |-> "popular", limit |-> limit, raised |-> FALSE,
                   items |-> RecommendationService_get_popular_items(redis, limit)]
    /\ UNCHANGED <<df, pc, order_items, item_frequency, item_cooccurrence, redis>>
    /\ UNCHANGED reloadVars

get_order_recommendations_known(store, order_id, limit) ==
    IF <<"order:", order_id>> \in DOMAIN store
    THEN RecommendationService_get_popular_items(store, limit)
    ELSE << >>

\* RecommendationService.get_order_recommendations: the order id is not
\* looked at; get_popular_items lets no exception out, so the except clause
\* is never entered.
get_order_recommendations(store, order_id, limit) ==
    RecommendationService_get_popular_items(store, limit)

\* The order ids a request can name: one the data can hold, one it cannot.
RequestOrderIds == {"o1", "o9"}

GetOrderRecommendations ==
    /\ \E order_id \in RequestOrderIds, limit \in Limits :
          resp' = [op |-> "order", order_id |-> order_id, limit |-> limit,
                   raised |-> FALSE,
                   items |-> get_order_recommendations(redis, order_id, limit)]
    /\ UNCHANGED <<df, pc, order_items, item_frequency, item_cooccurrence, redis>>
    /\ UNCHANGED reloadVars

Next ==
    \/ LoadData
    \/ BuildCooccurrenceMatrix
    \/ StorePopularItems
    \/ GetPopularItems
    \/ GetOrderRecommendations

Spec == Init /\ [][Next]_vars

\* -------------------------------------------------------------- serving

\* The batch job has run over a dataset and stored its popularity record;
\* embeddings are written one by one and similar-item requests are served.
ExampleRows ==
    << [order_id |-> "o1", item_name |-> <<"A">>],
       [order_id |-> "o1", item_name |-> <<"B">>],
       [order_id |-> "o2", item_name |-> <<"A">>],
       [order_id |-> "o2", item_name |-> <<"C">>] >>

ServingDatasets == {<< >>, ExampleRows}

InitServing ==
    /\ \E rows \in ServingDatasets :
          LET t == build_cooccurrence_matrix(NewTables, load_data(rows))
          IN /\ df = load_data(rows)
             /\ order_items = t.order_items
             /\ item_frequency = t.item_frequency
             /\ item_cooccurrence = t.item_cooccurrence
             /\ redis = _store_popular_items(EmptyMap, t.item_frequency)
    /\ pc = "stored"
    /\ resp = NoResp
    /\ ReloadIdle

SetItemEmbedding ==
    /\ \E item_name \in EmbeddingItems, embedding \in Vectors, metadata \in Metadatas :
          redis' = set_item_embedding(redis, item_name, embedding, metadata)
    /\ resp' = NoResp
    /\ UNCHANGED <<df, pc, order_items, item_frequency, item_cooccurrence>>
    /\ UNCHANGED reloadVars

\* RecommendationService.get_similar_items; similar_data is what the store
\* answered, items what the service made of it.
GetSimilarItems ==
    /\ \E item_name \in EmbeddingItems, limit \in Limits,
          keys \in KeyOrders(MatchingKeys(redis, "cooccurrence")) :
          LET similar_data == find_similar_items_by_embedding(
                                  redis, item_name, limit, "cooccurrence", keys)
          IN resp' = [op |-> "similar", item |-> item_name, limit |-> limit,
                      raised |-> FALSE,
                      similar_data |-> similar_data,
                      items |-> SimilarRecommendations(redis, similar_data, limit)]
    /\ UNCHANGED <<df, pc, order_items, item_frequency, item_cooccurrence, redis>>
    /\ UNCHANGED reloadVars

NextServing ==
    \/ SetItemEmbedding
    \/ GetSimilarItems

SpecServing == InitServing /\ [][NextServing]_vars

\* ------------------------------------------------------- serving baskets

\* RecommendationService.get_basket_recommendations, one request at a time:
\* the request is made once the answer before it has been taken.  keys is the
\* order in which KEYS listed the store for this request.
GetBasketRecommendations ==
    /\ resp = NoResp
    /\ \E items \in Baskets, limit \in Limits,
          keys \in KeyOrders(MatchingKeys(redis, "cooccurrence")) :
          resp' = [op |-> "basket", basket |-> items, limit |-> limit,
                   raised |-> FALSE, keys |-> keys,
                   items |-> get_basket_recommendations(redis, items, limit, keys)]
    /\ UNCHANGED <<df, pc, order_items, item_frequency, item_cooccurrence, redis>>
    /\ UNCHANGED reloadVars

NextBasket ==
    \/ SetItemEmbedding
    \/ GetBasketRecommendations

SpecBasket == InitServing /\ [][NextBasket]_vars


\* ------------------------------------------------- ranking candidates

\* An embedding is stored for an item of the catalogue.
SetCandidateEmbedding ==
    /\ \E item_name \in ItemNames, embedding \in Vectors, metadata \in Metadatas :
          redis' = set_item_embedding(redis, item_name, embedding, metadata)
    /\ resp' = NoResp
    /\ UNCHANGED <<df, pc, order_items, item_frequency, item_cooccurrence>>
    /\ UNCHANGED reloadVars

\* RedisService.find_similar_items_by_embedding for a stored item, one
\* request at a time.
RankForItem ==
    /\ resp = NoResp
    /\ \E item_name \in ItemNames, limit \in Limits,
          keys \in KeyOrders(MatchingKeys(redis, "cooccurrence")) :
          resp' = [op |-> "rank_item", item |-> item_name, limit |-> limit,
                   similar_data |-> find_similar_items_by_embedding(
                                        redis, item_name, limit, "cooccurrence", keys)]
    /\ UNCHANGED <<df, pc, order_items, item_frequency, item_cooccurrence, redis>>
    /\ UNCHANGED reloadVars

\* RecommendationService._find_items_similar_to_embedding for a query
\* vector: ranking is its list similarities after the sort, items its answer.
RankForEmbedding ==
    /\ resp = NoResp
    /\ \E vector \in Vectors, limit \in Limits,
          keys \in KeyOrders(MatchingKeys(redis, "cooccurrence")) :
          LET target_embedding == [nan |-> FALSE, v |-> vector]
          IN resp' = [op |-> "rank_embedding", target_embedding |-> vector,
                      limit |-> limit,
                      ranking |-> RankedSimilarities(redis, target_embedding, keys),
                      items |-> _find_items_similar_to_embedding(
                                    redis, target_embedding, limit, keys)]
    /\ UNCHANGED <<df, pc, order_items, item_frequency, item_cooccurrence, redis>>
    /\ UNCHANGED reloadVars

NextRanking ==
    \/ SetCandidateEmbedding
    \/ RankForItem
    \/ RankForEmbedding

SpecRanking == InitServing /\ [][NextRanking]_vars

\* ------------------------------------------------------ reads that fail

\* The reads of one request that meet a store that cannot be read: the
\* HGETALL of get_item_embedding, the KEYS of get_all_embeddings, the GET of
\* get_popular_items.  Each method catches the error and answers as if it
\* had found nothing.  A request here meets at least one failing lookup or
\* scan.
ReadFaults ==
    {f \in [lookup : BOOLEAN, scan : BOOLEAN, popular : BOOLEAN] :
        f.lookup \/ f.scan}

\* RedisService.find_similar_items_by_embedding when reads fail:
\* get_item_embedding answers None on an error, get_all_embeddings {}.
find_similar_items_by_embedding_failing(store, target_item, limit, embedding_type, keys, faults) ==
    IF faults.lookup THEN << >>
    ELSE find_similar_items_by_embedding(
             store, target_item, limit, embedding_type,
             IF faults.scan THEN << >> ELSE keys)

\* RecommendationService.get_popular_items when the read fails:
\* RedisService.get_popular_items answers [] on an error.
get_popular_items_failing(store, limit, faults) ==
    IF faults.popular THEN << >>
    ELSE RecommendationService_get_popular_items(store, limit)

\* RecommendationService.get_basket_recommendations when reads fail: a member
\* whose lookup fails counts as a member without an embedding.
get_basket_recommendations_failing(store, items, limit, keys, faults) ==
    LET basket_embedding ==
            IF faults.lookup THEN None ELSE _create_basket_embedding(store, items)
    IN IF basket_embedding = None THEN get_popular_items_failing(store, limit, faults)
       ELSE PySlice(
              NotInBasket(
                _find_items_similar_to_embedding(
                    store, basket_embedding, limit + Len(items),
                    IF faults.scan THEN << >> ELSE keys),
                items),
              limit)

\* The key orders a request can meet: none when no scan gets through.
KeysRead(store, faults) ==
    IF faults.lookup \/ faults.scan THEN {<< >>}
    ELSE KeyOrders(MatchingKeys(store, "cooccurrence"))

GetSimilarItemsFailing ==
    /\ resp = NoResp
    /\ \E item_name \in EmbeddingItems, limit \in Limits, faults \in ReadFaults :
          \E keys \in KeysRead(redis, faults) :
             resp' = [op |-> "similar_failing", item |-> item_name,
                      limit |-> limit, faults |-> faults, raised |-> FALSE,
                      items |-> SimilarRecommendations(
                                   redis,
                                   find_similar_items_by_embedding_failing(
                                       redis, item_name, limit, "cooccurrence",
                                       keys, faults),
                                   limit)]
    /\ UNCHANGED <<df, pc, order_items, item_frequency, item_cooccurrence, redis>>
    /\ UNCHANGED reloadVars

GetBasketRecommendationsFailing ==
    /\ resp = NoResp
    /\ \E items \in Baskets, limit \in Limits, faults \in ReadFaults :
          \E keys \in KeysRead(redis, faults) :
             resp' = [op |-> "basket_failing", basket |-> items,
                      limit |-> limit, faults |-> faults, raised |-> FALSE,
                      items |-> get_basket_recommendations_failing(
                                    redis, items, limit, keys, faults)]
    /\ UNCHANGED <<df, pc, order_items, item_frequency, item_cooccurrence, redis>>
    /\ UNCHANGED reloadVars

NextFailing ==
    \/ SetItemEmbedding
    \/ GetSimilarItemsFailing
    \/ GetBasketRecommendationsFailing

SpecFailing == InitServing /\ [][NextFailing]_vars

\* ------------------------------------------------- the loaders and the store

\* The embedding types a request can name: the two the store knows and one
\* it does not.
Variants == {"cooccurrence", "huggingface"}
EmbeddingTypes == Variants \cup {"openai"}

\* A dataset whose second item name starts with the text of a key prefix.
StoreNames == {<<"A">>, <<"hf:", "A">>}
StoreVectors == {<<1, 0>>, <<1, 1>>}

StoreRows ==
    << [order_id |-> "o1", item_name |-> <<"A">>],
       [order_id |-> "o1", item_name |-> <<"hf:", "A">>] >>

\* processor.item_embeddings as a loader finds it: vectors for items of the
\* dataset.
ItemEmbeddings == UNION {[S -> StoreVectors] : S \in SUBSET StoreNames \ {{}}}

\* processor.item_frequency.get(item, 0)
FrequencyOf(freq, item) ==
    IF \E k \in 1..Len(freq) : freq[k].item = item
    THEN (CHOOSE e \in Range(freq) : e.item = item).frequency
    ELSE 0

\* pipeline.hset(key, mapping=data) for every entry, then execute(): a key
\* that holds no hash keeps its value (that command fails), the others are
\* written.
RECURSIVE PipelineHSet(_, _, _)
PipelineHSet(store, embeddings, metadata) ==
    IF DOMAIN embeddings = {} THEN store
    ELSE LET key == CHOOSE k \in DOMAIN embeddings : TRUE
             rest == [k \in DOMAIN embeddings \ {key} |-> embeddings[k]]
             item_metadata == IF metadata # None /\ key \in DOMAIN metadata
                              THEN metadata[key] ELSE EmptyMap
             next == IF key \in DOMAIN store /\ store[key].type # "hash" THEN store
                     ELSE HSet(store, key, EmbeddingFields(embeddings[key], item_metadata))
         IN PipelineHSet(next, rest, metadata)

\* RedisService.bulk_store_embeddings: key = item_name, the key as provided.
bulk_store_embeddings(store, embeddings, metadata) ==
    PipelineHSet(store, embeddings, metadata)

\* load_embeddings_to_redis: the embeddings and the metadata, both keyed by
\* the item names, go to bulk_store_embeddings.
load_embeddings_to_redis(store, item_embeddings, freq) ==
    bulk_store_embeddings(
        store, item_embeddings,
        [item \in DOMAIN item_embeddings |-> [frequency |-> FrequencyOf(freq, item)]])

HfMetadata(freq, item_name, embedding) ==
    [frequency |-> FrequencyOf(freq, item_name), embedding_type |-> "huggingface",
     model |-> "all-minilm", dimension |-> Len(embedding)]

HfSummaryKey == <<"hf:", "summary">>

\* load_huggingface_embeddings_to_redis: the keys are f"hf:{item_name}", for
\* the embeddings and for the metadata; then the summary is SET at hf:summary.
load_huggingface_embeddings_to_redis(store, item_embeddings, freq) ==
    LET keys == {<<"hf:">> \o item : item \in DOMAIN item_embeddings}
        hf_embeddings == [key \in keys |-> item_embeddings[Tail(key)]]
        hf_metadata == [key \in keys |->
                           HfMetadata(freq, Tail(key), item_embeddings[Tail(key)])]
        hf_summary == [total_items |-> Cardinality(DOMAIN item_embeddings),
                       model |-> "all-minilm", key_prefix |-> "hf:"]
    IN (HfSummaryKey :> StringValue(PyStr(hf_summary)))
          @@ bulk_store_embeddings(store, hf_embeddings, hf_metadata)

SvdLoaderMetadata(embedding) ==
    [approach |-> "svd", dimension |-> Len(embedding), model |-> "TruncatedSVD"]

\* load_svd_embeddings_to_redis: one set_item_embedding per item.
RECURSIVE load_svd_embeddings_to_redis(_, _)
load_svd_embeddings_to_redis(store, embeddings) ==
    IF DOMAIN embeddings = {} THEN store
    ELSE LET item_name == CHOOSE k \in DOMAIN embeddings : TRUE
             rest == [k \in DOMAIN embeddings \ {item_name} |-> embeddings[k]]
         IN load_svd_embeddings_to_redis(
                set_item_embedding(store, item_name, embeddings[item_name],
                                   SvdLoaderMetadata(embeddings[item_name])),
                rest)

\* The batch job has run over StoreRows; the loaders write embeddings and the
\* store is read, by any embedding type.
InitStore ==
    /\ LET t == build_cooccurrence_matrix(NewTables, load_data(StoreRows))
       IN /\ df = load_data(StoreRows)
          /\ order_items = t.order_items
          /\ item_frequency = t.item_frequency
          /\ item_cooccurrence = t.item_cooccurrence
          /\ redis = _store_popular_items(EmptyMap, t.item_frequency)
    /\ pc = "stored"
    /\ resp = NoResp
    /\ ReloadIdle

\* What a loader run leaves for the claims to look at: the variant written
\* and, per item, the vector and the metadata given to the store.
Stored(loader, variant, item_embeddings, metadata) ==
    [op |-> "stored", loader |-> loader, variant |-> variant,
     embeddings |-> item_embeddings, metadata |-> metadata]

LoadSvdEmbeddingsToRedis ==
    /\ \E item_embeddings \in ItemEmbeddings :
          /\ redis' = load_svd_embeddings_to_redis(redis, item_embeddings)
          /\ resp' = Stored("svd", "cooccurrence", item_embeddings,
                            [item \in DOMAIN item_embeddings |->
                                SvdLoaderMetadata(item_embeddings[item])])
    /\ UNCHANGED <<df, pc, order_items, item_frequency, item_cooccurrence>>
    /\ UNCHANGED reloadVars

LoadEmbeddingsToRedis ==
    /\ \E item_embeddings \in ItemEmbeddings :
          /\ redis' = load_embeddings_to_redis(redis, item_embeddings, item_frequency)
          /\ resp' = Stored("embeddings", "cooccurrence", item_embeddings,
                            [item \in DOMAIN item_embeddings |->
                                [frequency |-> FrequencyOf(item_frequency, item)]])
    /\ UNCHANGED <<df, pc, order_items, item_frequency, item_cooccurrence>>
    /\ UNCHANGED reloadVars

LoadHuggingfaceEmbeddingsToRedis ==
    /\ \E item_embeddings \in ItemEmbeddings :
          /\ redis' = load_huggingface_embeddings_to_redis(
                          redis, item_embeddings, item_frequency)
          /\ resp' = Stored("huggingface", "huggingface", item_embeddings,
                            [item \in DOMAIN item_embeddings |->
                                HfMetadata(item_frequency, item, item_embeddings[item])])
    /\ UNCHANGED <<df, pc, order_items, item_frequency, item_cooccurrence>>
    /\ UNCHANGED reloadVars

GetItemEmbedding ==
    /\ \E item_name \in StoreNames, embedding_type \in EmbeddingTypes :
          resp' = [op |-> "get", item |-> item_name, embedding_type |-> embedding_type,
                   record |-> get_item_embedding(redis, item_name, embedding_type)]
    /\ UNCHANGED <<df, pc, order_items, item_frequency, item_cooccurrence, redis>>
    /\ UNCHANGED reloadVars

GetAllEmbeddings ==
    /\ \E embedding_type \in EmbeddingTypes :
       \E keys \in KeyOrders(MatchingKeys(redis, embedding_type)) :
          resp' = [op |-> "scan", embedding_type |-> embedding_type,
                   embeddings |-> get_all_embeddings(redis, embedding_type, keys)]
    /\ UNCHANGED <<df, pc, order_items, item_frequency, item_cooccurrence, redis>>
    /\ UNCHANGED reloadVars

FindSimilarItemsByEmbedding ==
    /\ \E target_item \in StoreNames, limit \in Limits, embedding_type \in EmbeddingTypes :
       \E keys \in KeyOrders(MatchingKeys(redis, embedding_type)) :
          resp' = [op |-> "find", item |-> target_item, limit |-> limit,
                   embedding_type |-> embedding_type,
                   similar_data |-> find_similar_items_by_embedding(
                                       redis, target_item, limit, embedding_type, keys)]
    /\ UNCHANGED <<df, pc, order_items, item_frequency, item_cooccurrence, redis>>
    /\ UNCHANGED reloadVars

NextStore ==
    \/ LoadSvdEmbeddingsToRedis
    \/ LoadEmbeddingsToRedis
    \/ LoadHuggingfaceEmbeddingsToRedis
    \/ GetItemEmbedding
    \/ GetAllEmbeddings
    \/ FindSimilarItemsByEmbedding

SpecStore == InitStore /\ [][NextStore]_vars

\* ------------------------------------------------ GET /similar-items

\* limit: int = Query(5, ge=1, le=20)
RouterMinLimit == 1
RouterMaxLimit == 20
RouterLimits == {limit \in Limits : limit >= RouterMinLimit /\ limit <= RouterMaxLimit}

\* item_data[key] on a dict of the store: KeyError when the key is missing.
HasKeys(item_data, keys) == keys \subseteq DOMAIN item_data

\* The loop of the router over similar_data, the same in the huggingface and
\* in the default branch: it reads item_name, similarity_score and reason of
\* every entry and builds a RecommendationItem.  A KeyError or a score the
\* model rejects ends in the except clause, which answers status 500.
router_get_similar_items(similar_data) ==
    IF \E k \in 1..Len(similar_data) :
          ~HasKeys(similar_data[k], {"item_name", "similarity_score", "reason"})
    THEN [raised |-> TRUE, recommendations |-> << >>]
    ELSE IF \E k \in 1..Len(similar_data) :
               ~ScoreIsValid(similar_data[k].similarity_score)
    THEN [raised |-> TRUE, recommendations |-> << >>]
    ELSE [raised |-> FALSE,
          recommendations |->
              [k \in 1..Len(similar_data) |->
                  [item_name |-> similar_data[k].item_name,
                   similarity_score |-> similar_data[k].similarity_score,
                   reason |-> similar_data[k].reason,
                   popularity_rank |-> None]]]

RouterGetSimilarItems ==
    /\ \E item_name \in StoreNames, limit \in RouterLimits, embedding_type \in Variants :
       \E keys \in KeyOrders(MatchingKeys(redis, embedding_type)) :
          LET similar_data == find_similar_items_by_embedding(
                                  redis, item_name, limit, embedding_type, keys)
              answer == router_get_similar_items(similar_data)
          IN resp' = [op |-> "router_similar", item |-> item_name, limit |-> limit,
                      embedding_type |-> embedding_type,
                      similar_data |-> similar_data,
                      raised |-> answer.raised,
                      recommendations |-> answer.recommendations]
    /\ UNCHANGED <<df, pc, order_items, item_frequency, item_cooccurrence, redis>>
    /\ UNCHANGED reloadVars

NextRouter ==
    \/ LoadSvdEmbeddingsToRedis
    \/ LoadHuggingfaceEmbeddingsToRedis
    \/ RouterGetSimilarItems

SpecRouter == InitStore /\ [][NextRouter]_vars

\* ------------------------------------------------- scans over foreign keys

\* Keys under the two prefixes that no loader wrote and that hold no
\* embedding: a hash without an embedding field.
ForeignStores ==
    {EmptyMap} \cup
    {(<<KeyPrefix(variant), "X">> :>
         [type |-> "hash", fields |-> [metadata |-> JsonDumps(EmptyMap)]]) :
       variant \in Variants}

InitScan ==
    /\ LET t == build_cooccurrence_matrix(NewTables, load_data(StoreRows))
       IN /\ df = load_data(StoreRows)
          /\ order_items = t.order_items
          /\ item_frequency = t.item_frequency
          /\ item_cooccurrence = t.item_cooccurrence
    /\ redis \in ForeignStores
    /\ pc = "stored"
    /\ resp = NoResp
    /\ ReloadIdle

NextScan ==
    \/ LoadSvdEmbeddingsToRedis
    \/ LoadHuggingfaceEmbeddingsToRedis
    \/ GetAllEmbeddings

SpecScan == InitScan /\ [][NextScan]_vars

\* ------------------------------------------------- generating and reloading

\* Python's comparison of two strings: the first place where they differ
\* decides, and a string is less than every string it starts.  The tokens of
\* which names are made, in the order of their first characters.
TokenOrder == <<"A", "B", "C", "hf:", "item:">>
TokenRank(t) == CHOOSE k \in 1..Len(TokenOrder) : TokenOrder[k] = t

RECURSIVE StrLess(_, _)
StrLess(a, b) ==
    IF b = << >> THEN FALSE
    ELSE IF a = << >> THEN TRUE
    ELSE IF Head(a) # Head(b) THEN TokenRank(Head(a)) < TokenRank(Head(b))
    ELSE StrLess(Tail(a), Tail(b))

\* One step of sorted(): the item goes before the first item greater than it.
InsertSorted(items, item) ==
    LET before == SelectSeq(items, LAMBDA x : ~StrLess(item, x))
        after == SelectSeq(items, LAMBDA x : StrLess(item, x))
    IN before \o <<item>> \o after

sorted_unsorted(keys) == keys

\* sorted(item_cooccurrence.keys()), keys in the order the dict holds them.
RECURSIVE sorted(_)
sorted(keys) ==
    IF keys = << >> THEN << >>
    ELSE InsertSorted(sorted(SubSeq(keys, 1, Len(keys) - 1)), keys[Len(keys)])

\* np.log1p of a count; np.zeros leaves a cell that is never set at count 0.
Log1p(count) == [log1p |-> count]

\* The cells the fill loop sets: a count of item_cooccurrence for every pair
\* of indexed items that has one.
CellCount(cooccurrence, item1, item2) ==
    IF item1 \in DOMAIN cooccurrence /\ item2 \in DOMAIN cooccurrence[item1]
    THEN cooccurrence[item1][item2]
    ELSE 0

\* EmbeddingService.build_cooccurrence_matrix: the index maps (idx from 0)
\* and the matrix after log1p.
EmbeddingService_build_cooccurrence_matrix(keys, cooccurrence) ==
    LET items == sorted(keys)
        n == Len(items)
    IN [item_index |-> [item \in Range(items) |->
                          (CHOOSE k \in 1..n : items[k] = item) - 1],
        index_item |-> [idx \in 0..(n - 1) |-> items[idx + 1]],
        cooccurrence_matrix |->
            [idx1 \in 0..(n - 1) |-> [idx2 \in 0..(n - 1) |->
                Log1p(CellCount(cooccurrence, items[idx1 + 1], items[idx2 + 1]))]]]

\* index_item as a list, index k of the model being idx k - 1 of the code.
index_item(cooccurrence) ==
    sorted(CHOOSE keys \in KeyOrders(DOMAIN cooccurrence) : TRUE)

IndexOf(items, item) == CHOOSE k \in 1..Len(items) : items[k] = item

\* The loop that ends both generators: every item gets its row, in the dict
\* returned and in self.item_embeddings.
RowsByItem(items, embeddings_matrix) ==
    [item \in Range(items) |-> embeddings_matrix[IndexOf(items, item)]]

\* The rows fit_transform and the sentence model hand back before they are
\* normalized.  No row is all zero, and each has a whole norm that divides
\* its entries, so that the normalized row is exact.
ModelRows == {<<2, 0>>, <<0, 3>>}

NormSq(v) == Dot(v, v)
Norm(v) == CHOOSE n \in 0..NormSq(v) : n * n = NormSq(v)

L2Normalize_none(row) == row

\* sklearn's normalize(norm='l2') and encode(normalize_embeddings=True) on
\* one row: the row divided by its norm; a row of norm zero stays as it is.
L2Normalize(row) ==
    IF NormSq(row) = 0 THEN row
    ELSE [i \in 1..Len(row) |-> row[i] \div Norm(row)]

NormalizeRows(matrix) == [k \in DOMAIN matrix |-> L2Normalize(matrix[k])]

generate_embeddings_early(self, items, embeddings_matrix, fit_raises) ==
    [raised |-> fit_raises,
     item_embeddings |-> IF fit_raises THEN EmptyMap
                         ELSE RowsByItem(items, NormalizeRows(embeddings_matrix)),
     self_item_embeddings |->
         RowsByItem(items, NormalizeRows(embeddings_matrix)) @@ self]

\* EmbeddingService.generate_embeddings: fit_transform (whose rows are
\* embeddings_matrix) and normalize come first and may raise; the loop that
\* fills the dicts cannot.
generate_embeddings(self, items, embeddings_matrix, fit_raises) ==
    IF fit_raises
    THEN [raised |-> TRUE, item_embeddings |-> EmptyMap, self_item_embeddings |-> self]
    ELSE [raised |-> FALSE,
          item_embeddings |-> RowsByItem(items, NormalizeRows(embeddings_matrix)),
          self_item_embeddings |->
              RowsByItem(items, NormalizeRows(embeddings_matrix)) @@ self]

\* What can go wrong in HuggingFaceEmbeddingService.generate_item_embeddings:
\* load_model or model.encode raises.
HfFaults == {"none", "load_model", "encode"}

\* HuggingFaceEmbeddingService.generate_item_embeddings: the model is loaded
\* and the names are encoded, the rows normalized, before the loop that
\* fills the dicts.
generate_item_embeddings(self, items, embeddings, fault) ==
    IF fault # "none"
    THEN [raised |-> TRUE, item_embeddings |-> EmptyMap, self_item_embeddings |-> self]
    ELSE [raised |-> FALSE,
          item_embeddings |-> RowsByItem(items, NormalizeRows(embeddings)),
          self_item_embeddings |-> RowsByItem(items, NormalizeRows(embeddings)) @@ self]

\* The items of the data set in the order the frequency table holds them.
FrequencyItems(freq) == [k \in 1..Len(freq) |-> freq[k].item]

\* DataProcessor.generate_embeddings, which the loaders call: it has the
\* generator of its variant make the vectors, keeps them as
\* processor.item_embeddings in the order generated, and lets an exception
\* of the generator through.
DataProcessor_generate_embeddings(variant, t, self, embeddings_matrix, fault) ==
    LET items == IF variant = "huggingface" THEN FrequencyItems(t.item_frequency)
                 ELSE index_item(t.item_cooccurrence)
        g == IF variant = "huggingface"
             THEN generate_item_embeddings(self, items, embeddings_matrix, fault)
             ELSE generate_embeddings(self, items, embeddings_matrix, fault # "none")
    IN [raised |-> g.raised,
        item_embeddings |-> g.item_embeddings,
        order |-> IF g.raised THEN << >> ELSE items,
        self_item_embeddings |-> g.self_item_embeddings]

\* The embedding service builds its matrix from the processor's table, whose
\* keys the dict holds in some order.
BuildEmbeddingMatrix ==
    /\ pc = "built"
    /\ \E keys \in KeyOrders(DOMAIN item_cooccurrence) :
          resp' = [op |-> "matrix", keys |-> keys,
                   built |-> EmbeddingService_build_cooccurrence_matrix(
                                 keys, item_cooccurrence)]
    /\ UNCHANGED <<df, pc, order_items, item_frequency, item_cooccurrence, redis>>
    /\ UNCHANGED reloadVars

\* EmbeddingService.generate_embeddings on the matrix just built: one vector
\* for every entry of index_item; fit_transform raises on a matrix of no rows.
GenerateMatrixEmbeddings ==
    /\ pc = "built"
    /\ resp.op = "matrix"
    /\ LET n == Len(resp.keys)
           items == [k \in 1..n |-> resp.built.index_item[k - 1]]
       IN \E embeddings_matrix \in [1..n -> ModelRows] :
             LET g == generate_embeddings(EmptyMap, items, embeddings_matrix, n = 0)
             IN resp' = [op |-> "factorized", keys |-> resp.keys,
                         index_item |-> resp.built.index_item,
                         raised |-> g.raised,
                         item_embeddings |-> g.item_embeddings]
    /\ UNCHANGED <<df, pc, order_items, item_frequency, item_cooccurrence, redis>>
    /\ UNCHANGED reloadVars

NextMatrix ==
    \/ LoadData
    \/ BuildCooccurrenceMatrix
    \/ BuildEmbeddingMatrix
    \/ GenerateMatrixEmbeddings

SpecMatrix == Init /\ [][NextMatrix]_vars

\* The data sets the loaders run over: one order of two items.
ReloadDatasets ==
    { << [order_id |-> "o1", item_name |-> <<"A">>],
         [order_id |-> "o1", item_name |-> x] >> : x \in {<<"B">>, <<"C">>} }

InitReload ==
    /\ df = << >>
    /\ pc = "new"
    /\ order_items = NewTables.order_items
    /\ item_frequency = NewTables.item_frequency
    /\ item_cooccurrence = NewTables.item_cooccurrence
    /\ redis = EmptyMap
    /\ resp = NoResp
    /\ ReloadIdle

\* A loader script starts: a new processor (and with it a new generator)
\* loads the data and builds the tables.
StartLoader ==
    /\ run.pc \in {"idle", "done", "failed"}
    /\ run.runs < MaxRuns
    /\ \E rows \in ReloadDatasets, variant \in Variants :
          LET t == build_cooccurrence_matrix(NewTables, load_data(rows))
          IN /\ df' = load_data(rows)
             /\ order_items' = t.order_items
             /\ item_frequency' = t.item_frequency
             /\ item_cooccurrence' = t.item_cooccurrence
             /\ run' = [run EXCEPT !.pc = "built", !.variant = variant,
                                   !.runs = @ + 1, !.embeddings = EmptyMap,
                                   !.todo = << >>]
    /\ pc' = "built"
    /\ self_item_embeddings' = EmptyMap
    /\ UNCHANGED <<redis, resp, scan>>

\* processor.generate_embeddings(); embeddings = processor.item_embeddings.
\* An exception ends the script; the SVD of an empty matrix always raises.
GenerateEmbeddings ==
    /\ run.pc = "built"
    /\ LET t == [order_items |-> order_items, item_frequency |-> item_frequency,
                 item_cooccurrence |-> item_cooccurrence]
           n == IF run.variant = "huggingface" THEN Len(item_frequency)
                ELSE Len(index_item(item_cooccurrence))
       IN \E fault \in HfFaults, embeddings_matrix \in [1..n -> ModelRows] :
             /\ run.variant = "cooccurrence" => fault # "load_model"
             /\ (run.variant = "cooccurrence" /\ n = 0) => fault # "none"
             /\ LET g == DataProcessor_generate_embeddings(
                             run.variant, t, self_item_embeddings,
                             embeddings_matrix, fault)
                IN /\ self_item_embeddings' = g.self_item_embeddings
                   /\ run' = IF g.raised
                             THEN [run EXCEPT
                                     !.pc = "failed",
                                     !.before = [redis |-> redis,
                                                 self_item_embeddings |->
                                                     self_item_embeddings]]
                             ELSE [run EXCEPT
                                     !.pc = IF g.order = << >> THEN "done"
                                            ELSE "storing",
                                     !.embeddings = g.item_embeddings,
                                     !.todo = g.order,
                                     !.history =
                                        IF run.variant = "cooccurrence"
                                        THEN Append(@, g.item_embeddings) ELSE @]
    /\ UNCHANGED <<df, pc, order_items, item_frequency, item_cooccurrence,
                   redis, resp, scan>>

\* load_svd_embeddings_to_redis.py, one turn of its loop: one
\* set_item_embedding, which a scan under way may come before or after.
StoreNext ==
    /\ run.pc = "storing"
    /\ run.variant = "cooccurrence"
    /\ LET item_name == Head(run.todo)
           embedding == run.embeddings[item_name]
       IN /\ redis' = set_item_embedding(redis, item_name, embedding,
                                         SvdLoaderMetadata(embedding))
          /\ run' = [run EXCEPT
                       !.todo = Tail(@),
                       !.pc = IF Tail(run.todo) = << >> THEN "done" ELSE "storing",
                       !.written_by = (item_name :> Len(run.history)) @@ @]
    /\ scan' = IF scan.pc = "reading" THEN [scan EXCEPT !.overlapped = TRUE]
               ELSE scan
    /\ UNCHANGED <<df, pc, order_items, item_frequency, item_cooccurrence,
                   resp, self_item_embeddings>>

\* load_huggingface_embeddings_to_redis.py: the pipeline stores every hf: key
\* at once.
StoreBulk ==
    /\ run.pc = "storing"
    /\ run.variant = "huggingface"
    /\ redis' = load_huggingface_embeddings_to_redis(redis, run.embeddings,
                                                     item_frequency)
    /\ run' = [run EXCEPT !.todo = << >>, !.pc = "done"]
    /\ UNCHANGED <<df, pc, order_items, item_frequency, item_cooccurrence,
                   resp, self_item_embeddings, scan>>

\* RedisService.get_all_embeddings as a reader runs it next to a loader:
\* KEYS first ...
StartScan ==
    /\ scan.pc = "idle"
    /\ resp = NoResp
    /\ \E keys \in KeyOrders(MatchingKeys(redis, "cooccurrence")) :
          scan' = [pc |-> "reading", keys |-> keys, embeddings |-> << >>,
                   read_of |-> EmptyMap, overlapped |-> run.pc = "storing"]
    /\ UNCHANGED <<df, pc, order_items, item_frequency, item_cooccurrence,
                   redis, resp, run, self_item_embeddings>>

\* ... then TYPE and HGETALL of one key after the other, each finding the
\* store as it is by then ...
ScanNext ==
    /\ scan.pc = "reading"
    /\ scan.keys # << >>
    /\ LET key == Head(scan.keys)
           item_name == StrReplacePrefix(key, KeyPrefix("cooccurrence"))
       IN scan' = [scan EXCEPT
                     !.keys = Tail(@),
                     !.embeddings = IF key \in DOMAIN redis
                                    THEN ScanKeys(redis, <<key>>, "cooccurrence", @)
                                    ELSE @,
                     !.read_of = IF item_name \in DOMAIN run.written_by
                                 THEN (item_name :> run.written_by[item_name]) @@ @
                                 ELSE @]
    /\ UNCHANGED <<df, pc, order_items, item_frequency, item_cooccurrence,
                   redis, resp, run, self_item_embeddings>>

\* ... and the dict is returned.
FinishScan ==
    /\ scan.pc = "reading"
    /\ scan.keys = << >>
    /\ resp' = [op |-> "concurrent_scan", embeddings |-> scan.embeddings,
                read_of |-> scan.read_of, overlapped |-> scan.overlapped,
                history |-> run.history]
    /\ scan' = ScanIdle
    /\ UNCHANGED <<df, pc, order_items, item_frequency, item_cooccurrence,
                   redis, run, self_item_embeddings>>

NextReload ==
    \/ StartLoader
    \/ GenerateEmbeddings
    \/ StoreNext
    \/ StoreBulk
    \/ StartScan
    \/ ScanNext
    \/ FinishScan

SpecReload == InitReload /\ [][NextReload]_vars

\* ------------------------------------------- the processor's read operations

\* How many co-occurring items get_item_stats lists.
TopCooccurring == 10

\* d.get(key, default) and "key in d": the dict stays as it is.
DictGet(map, key, default) == IF key \in DOMAIN map THEN map[key] ELSE default

\* d[key] on a defaultdict: a key that is missing comes into being with the
\* default value.
DefaultDictIndex(map, key, default) ==
    [map |-> IF key \in DOMAIN map THEN map ELSE (key :> default) @@ map,
     value |-> IF key \in DOMAIN map THEN map[key] ELSE default]

\* row.items() in the order the dict holds its keys, as (item, count) pairs.
RowItems(row, keys) ==
    [k \in 1..Len(keys) |-> [item |-> keys[k], frequency |-> row[keys[k]]]]

\* DataProcessor._get_popularity_rank.
_get_popularity_rank(t, item_name) ==
    LET sorted_items == SortByFrequency(t.item_frequency)
    IN [tables |-> t,
        result |-> IF \E k \in 1..Len(sorted_items) : sorted_items[k].item = item_name
                   THEN CHOOSE k \in 1..Len(sorted_items) :
                            sorted_items[k].item = item_name
                   ELSE Len(sorted_items) + 1]

\* DataProcessor.get_item_stats; keys is the order in which the item's row
\* holds its keys.
get_item_stats(t, item_name, keys) ==
    LET frequency == FrequencyOf(t.item_frequency, item_name)
        cooccurring_items ==
            Cardinality(DOMAIN DictGet(t.item_cooccurrence, item_name, EmptyMap))
        row == IF item_name \in DOMAIN t.item_cooccurrence
               THEN DefaultDictIndex(t.item_cooccurrence, item_name, EmptyMap)
               ELSE [map |-> t.item_cooccurrence, value |-> EmptyMap]
        t2 == [t EXCEPT !.item_cooccurrence = row.map]
        rank == _get_popularity_rank(t2, item_name)
    IN [tables |-> rank.tables,
        result |-> [frequency |-> frequency,
                    cooccurring_items_count |-> cooccurring_items,
                    top_cooccurring |->
                        PySlice(SortByFrequency(RowItems(row.value, keys)),
                                TopCooccurring),
                    popularity_rank |-> rank.result]]

\* DataProcessor.get_popular_items as a method of the processor.
get_popular_items(t, limit) ==
    [tables |-> t, result |-> DataProcessor_get_popular_items(t.item_frequency, limit)]

get_similar_items_unguarded(t, item_name, limit, keys) ==
    LET row == DefaultDictIndex(t.item_cooccurrence, item_name, EmptyMap)
    IN [tables |-> [t EXCEPT !.item_cooccurrence = row.map],
        result |-> PySlice(SortByFrequency(RowItems(row.value, keys)), limit)]

\* DataProcessor.get_similar_items: the row is indexed only behind the test
\* "item_name not in self.item_cooccurrence".
get_similar_items(t, item_name, limit, keys) ==
    IF item_name \notin DOMAIN t.item_cooccurrence
    THEN [tables |-> t, result |-> << >>]
    ELSE LET row == DefaultDictIndex(t.item_cooccurrence, item_name, EmptyMap)
         IN [tables |-> [t EXCEPT !.item_cooccurrence = row.map],
             result |-> PySlice(SortByFrequency(RowItems(row.value, keys)), limit)]

\* DataProcessor.get_order_items.
get_order_items(t, order_id) ==
    [tables |-> t, result |-> DictGet(t.order_items, order_id, << >>)]

Tables ==
    [order_items |-> order_items, item_frequency |-> item_frequency,
     item_cooccurrence |-> item_cooccurrence]

\* The orders in which the row of an item can hold its keys.
RowKeyOrders(item_name) ==
    KeyOrders(DOMAIN DictGet(item_cooccurrence, item_name, EmptyMap))

\* A read of the processor: what it leaves of the tables, and its answer next
\* to the tables it found.
Read(op, args, r) ==
    /\ order_items' = r.tables.order_items
    /\ item_frequency' = r.tables.item_frequency
    /\ item_cooccurrence' = r.tables.item_cooccurrence
    /\ resp' = [op |-> op, args |-> args, result |-> r.result, before |-> Tables]
    /\ UNCHANGED <<df, pc, redis>>
    /\ UNCHANGED reloadVars

GetItemStats ==
    /\ pc = "built"
    /\ \E item_name \in ItemNames : \E keys \in RowKeyOrders(item_name) :
          Read("get_item_stats", <<item_name>>, get_item_stats(Tables, item_name, keys))

GetPopularityRank ==
    /\ pc = "built"
    /\ \E item_name \in ItemNames :
          Read("_get_popularity_rank", <<item_name>>,
               _get_popularity_rank(Tables, item_name))

ProcessorGetPopularItems ==
    /\ pc = "built"
    /\ \E limit \in Limits :
          Read("get_popular_items", <<limit>>, get_popular_items(Tables, limit))

ProcessorGetSimilarItems ==
    /\ pc = "built"
    /\ \E item_name \in ItemNames, limit \in Limits :
       \E keys \in RowKeyOrders(item_name) :
          Read("get_similar_items", <<item_name, limit>>,
               get_similar_items(Tables, item_name, limit, keys))

GetOrderItems ==
    /\ pc = "built"
    /\ \E order_id \in RequestOrderIds :
          Read("get_order_items", <<order_id>>, get_order_items(Tables, order_id))

NextReads ==
    \/ LoadData
    \/ BuildCooccurrenceMatrix
    \/ GetItemStats
    \/ GetPopularityRank
    \/ ProcessorGetPopularItems
    \/ ProcessorGetSimilarItems
    \/ GetOrderItems

SpecReads == Init /\ [][NextReads]_vars

\* ---------------------------------------------------------------- claims

\* The names an ingested row can carry: the empty name is what is left of a
\* cell of blanks.
AllNames == ItemNames \cup {<< >>}

Built == pc \in {"built", "stored"}

Count(a, b) ==
    IF a \in DOMAIN item_cooccurrence /\ b \in DOMAIN item_cooccurrence[a]
    THEN item_cooccurrence[a][b] ELSE 0

Frequency(a) ==
    IF \E k \in 1..Len(item_frequency) : item_frequency[k].item = a
    THEN (CHOOSE e \in Range(item_frequency) : e.item = a).frequency
    ELSE 0

RowsCarrying(a) == {i \in 1..Len(df) : df[i].item_name = a}

OrdersWithBoth(a, b) ==
    {o \in DOMAIN order_items : {a, b} \subseteq Range(order_items[o])}

HasDuplicate(items) == Cardinality(Range(items)) < Len(items)

\* Every ingested row carries a name of the catalogue (none is the empty name).
ProperRows == \A i \in 1..Len(df) : df[i].item_name \in ItemNames

\* C1: after build_cooccurrence_matrix, count(a,b) = count(b,a) for every
\* pair of items, orders that repeat an item name included.
C1_CountSymmetric ==
    Built => \A a, b \in AllNames : Count(a, b) = Count(b, a)

C1_Witness ==
    /\ Built
    /\ \E o \in DOMAIN order_items :
          /\ HasDuplicate(order_items[o])
          /\ \E a, b \in Range(order_items[o]) : a # b /\ Count(a, b) >= 2

\* C2: after build_cooccurrence_matrix no entry count(a,a) exists, also when
\* a stands at two or more positions of one order.  Stated for datasets of
\* proper rows.
C2_NoSelfPair ==
    (Built /\ ProperRows) =>
        \A a \in DOMAIN item_cooccurrence : a \notin DOMAIN item_cooccurrence[a]

\* C3: after build_cooccurrence_matrix, for distinct a and b, count(a,b) is
\* the number of orders in which both a and b appear, an item that appears
\* twice in an order counting once.  Stated for datasets of proper rows.
C3_CountIsOrdersWithBoth ==
    (Built /\ ProperRows) =>
        \A a, b \in ItemNames :
            a # b => Count(a, b) = Cardinality(OrdersWithBoth(a, b))

\* C4: after build_cooccurrence_matrix the frequency of every item is the
\* number of ingested rows that carry its name.
C4_FrequencyIsRowCount ==
    Built => /\ \A a \in AllNames : Frequency(a) = Cardinality(RowsCarrying(a))
             /\ \A k \in 1..Len(item_frequency) : item_frequency[k].item \in AllNames

C4_Witness ==
    /\ Built
    /\ \E o \in DOMAIN order_items, a, b \in ItemNames :
          /\ a # b
          /\ {a, b} \subseteq Range(order_items[o])
          /\ Len(order_items[o]) = 3
          /\ Frequency(a) = 2

MaxFrequency ==
    IF item_frequency = << >> THEN 0
    ELSE CHOOSE m \in {e.frequency : e \in Range(item_frequency)} :
            \A e \in Range(item_frequency) : e.frequency <= m

\* C5: the list popular(limit) answers is in non-increasing order of
\* frequency, its first entry has the greatest frequency of the snapshot and
\* entry i carries popularity_rank i.
C5_PopularRanked ==
    resp.op = "popular" =>
        LET r == resp.items
        IN /\ \A i \in 1..Len(r) : r[i].popularity_rank = i
           /\ \A i \in 1..Len(r) : r[i].reason[2] = Frequency(r[i].item_name)
           /\ \A i \in 1..(Len(r) - 1) :
                 Frequency(r[i].item_name) >= Frequency(r[i + 1].item_name)
           /\ Len(r) > 0 => Frequency(r[1].item_name) = MaxFrequency

C5_Witness ==
    /\ resp.op = "popular"
    /\ Len(resp.items) >= 2
    /\ Frequency(resp.items[1].item_name) > Frequency(resp.items[2].item_name)
    /\ item_frequency[1].item # resp.items[1].item_name

\* The greatest frequency of the popularity record the store holds.
SnapshotMaxFrequency ==
    LET items == RedisService_get_popular_items(redis, PopularTop)
    IN CHOOSE m \in {items[i].frequency : i \in 1..Len(items)} :
          \A i \in 1..Len(items) : items[i].frequency <= m

\* C6: the score of every item popular(limit) answers is its frequency
\* divided by the greatest frequency of the current snapshot (at most 1.0),
\* so the first item's score is 1.0.
C6_ScoreIsShareOfSnapshotMax ==
    (resp.op = "popular" /\ resp.items # << >>) =>
        /\ \A i \in 1..Len(resp.items) :
              LET e == resp.items[i]
              IN e.similarity_score.num * SnapshotMaxFrequency
                    = Frequency(e.item_name) * e.similarity_score.den
        /\ resp.items[1].similarity_score.num = resp.items[1].similarity_score.den

HasEmbedding(item_name) == get_item_embedding(redis, item_name, "cooccurrence") # None

PopularNow(limit) == RecommendationService_get_popular_items(redis, limit)

\* C7, as claimed: for an item with no embedding, get_similar_items answers
\* what popular(limit) answers.
C7_FallsBackToPopular ==
    (resp.op = "similar" /\ ~HasEmbedding(resp.item)) =>
        resp.items = PopularNow(resp.limit)

\* C7, amended: for an item with no embedding, get_similar_items answers the
\* empty list whatever the popularity record holds; the answer is that of
\* popular(limit) only when popular(limit) is empty too.
C7_EmptyNotPopular ==
    (resp.op = "similar" /\ ~HasEmbedding(resp.item)) =>
        /\ resp.items = << >>
        /\ (resp.items = PopularNow(resp.limit)) <=> (PopularNow(resp.limit) = << >>)

C7_Witness ==
    /\ resp.op = "similar"
    /\ ~HasEmbedding(resp.item)
    /\ PopularNow(resp.limit) # << >>
    /\ resp.items = << >>

\* C8: a similar-items request for an item with no embedding is answered
\* with an empty list, by the store and by the service, and raises nothing.
C8_NoEmbeddingEmptyList ==
    (resp.op = "similar" /\ ~HasEmbedding(resp.item)) =>
        /\ resp.similar_data = << >>
        /\ Len(resp.items) = 0
        /\ resp.raised = FALSE

C8_Witness ==
    /\ resp.op = "similar"
    /\ ~HasEmbedding(resp.item)
    /\ resp.limit >= 1
    /\ \E other \in EmbeddingItems : HasEmbedding(other)
    /\ resp.similar_data = << >>

PlainNames ==
    /\ "item:" \notin Range(resp.item)
    /\ \A k \in MatchingKeys(redis, "cooccurrence") : "item:" \notin Range(Tail(k))

OtherEmbedded(item_name) ==
    {n \in EmbeddingItems : n # item_name /\ HasEmbedding(n)}

ScoreAgainst(item_name, other) ==
    _calculate_cosine_similarity(
        get_item_embedding(redis, item_name, "cooccurrence").embedding,
        get_item_embedding(redis, other, "cooccurrence").embedding)

\* C10: for an item with an embedding, scores anywhere in [-1, 1], the
\* request is answered with min(limit, number of other embedded items)
\* results, in non-increasing order of score, none scoring below a candidate
\* left out.  Stated for stores of plain names.
C10_TopLimitByScore ==
    (resp.op = "similar" /\ HasEmbedding(resp.item) /\ resp.limit >= 0 /\ PlainNames) =>
        LET r == resp.items
            returned == {r[k].item_name : k \in 1..Len(r)}
        IN /\ Len(r) = Min2(resp.limit, Cardinality(OtherEmbedded(resp.item)))
           /\ \A k \in 1..(Len(r) - 1) :
                 ~ScoreLess(r[k].similarity_score, r[k + 1].similarity_score)
           /\ \A k \in 1..Len(r) : \A n \in OtherEmbedded(resp.item) \ returned :
                 ~ScoreLess(r[k].similarity_score, ScoreAgainst(resp.item, n))

\* The store holds plain names only, and so does the basket asked about.
PlainStore ==
    \A k \in MatchingKeys(redis, "cooccurrence") : "item:" \notin Range(Tail(k))

PlainBasket == \A i \in 1..Len(resp.basket) : "item:" \notin Range(resp.basket[i])

\* The stored items a basket request may answer with.
Eligible(items) == {n \in EmbeddingItems : n \notin Range(items) /\ HasEmbedding(n)}

\* The basket has a centroid: a member has an embedding, the members'
\* embeddings have one dimension and their mean is not the zero vector.
CentroidDefined(items) ==
    /\ \E i \in 1..Len(items) : HasEmbedding(items[i])
    /\ _create_basket_embedding(redis, items) # None
    /\ ~_create_basket_embedding(redis, items).nan

BasketScore(items, n) ==
    calculate_cosine_similarity(
        _create_basket_embedding(redis, items),
        get_item_embedding(redis, n, "cooccurrence").embedding)

\* C11: when a basket member has an embedding, the basket request is answered
\* with the `limit` stored items that are not basket members and score highest
\* against the centroid of the embedded members: no basket member is in the
\* answer, min(limit, eligible items) entries are, in non-increasing order of
\* score, and no eligible item left out scores above one in the answer.
\* Stated for stores and baskets of plain names and baskets with a centroid.
C11_BasketTopLimit ==
    (/\ resp.op = "basket"
     /\ resp.limit >= 0
     /\ PlainStore /\ PlainBasket
     /\ CentroidDefined(resp.basket)) =>
        LET r == resp.items
            returned == {r[k].item_name : k \in 1..Len(r)}
        IN /\ returned \cap Range(resp.basket) = {}
           /\ Len(r) = Min2(resp.limit, Cardinality(Eligible(resp.basket)))
           /\ \A k \in 1..(Len(r) - 1) :
                 ~ScoreLess(r[k].similarity_score, r[k + 1].similarity_score)
           /\ \A k \in 1..Len(r) : \A n \in Eligible(resp.basket) \ returned :
                 ~ScoreLess(r[k].similarity_score, BasketScore(resp.basket, n))

\* C12: when no basket member has an embedding, the basket request is
\* answered with the first `limit` entries of popular(limit + |items|) that
\* are not basket members, so no basket member is in the answer.
C12_FallbackWithoutMembers ==
    (/\ resp.op = "basket"
     /\ resp.limit >= 0
     /\ \A i \in 1..Len(resp.basket) : ~HasEmbedding(resp.basket[i])) =>
        /\ resp.items = PySlice(NotInBasket(PopularNow(resp.limit + Len(resp.basket)),
                                            resp.basket), resp.limit)
        /\ \A k \in 1..Len(resp.items) : resp.items[k].item_name \notin Range(resp.basket)

\* What an answer says: the items and their scores, in order.
NamesAndScores(items) ==
    [k \in 1..Len(items) |->
        [item_name |-> items[k].item_name, similarity_score |-> items[k].similarity_score]]

\* C13: for an item x with an embedding, the basket request for [x] is
\* answered with the items, in the order, that the similar-items request for
\* x is answered with on the same store, KEYS listing it in the same order.
\* Stated for stores and baskets of plain names.
C13_SingletonBasketIsSimilar ==
    (/\ resp.op = "basket"
     /\ resp.limit >= 0
     /\ PlainStore /\ PlainBasket
     /\ Len(resp.basket) = 1
     /\ HasEmbedding(resp.basket[1])) =>
        NamesAndScores(resp.items) =
            NamesAndScores(RecommendationService_get_similar_items(
                               redis, resp.basket[1], resp.limit, resp.keys))

\* C14: once a loader has written the embedding v with metadata meta for
\* item i of a variant (set_item_embedding, or bulk_store_embeddings as the
\* loaders call it), get_item_embedding(i, variant) answers a record with the
\* embedding v, the dimension len(v) and the metadata meta.
C14_StoredIsRetrieved ==
    resp.op = "stored" =>
        \A item \in DOMAIN resp.embeddings :
            LET record == get_item_embedding(redis, item, resp.variant)
            IN /\ record # None
               /\ record.embedding = resp.embeddings[item]
               /\ record.embedding_dimension = Len(resp.embeddings[item])
               /\ record.metadata = resp.metadata[item]

\* What the two readers answer for a variant, for every item and for every
\* order in which KEYS may list the store.
VariantView(store, variant) ==
    [get |-> [item \in StoreNames |-> get_item_embedding(store, item, variant)],
     scan |-> {get_all_embeddings(store, variant, keys) :
                  keys \in KeyOrders(MatchingKeys(store, variant))}]

\* C15: a loader run that writes entries of one variant changes nothing of
\* what get_item_embedding and get_all_embeddings answer for the other
\* variant, whatever the item names are.
C15_WriteKeepsOtherVariant ==
    [][resp'.op = "stored" =>
          \A other \in Variants \ {resp'.variant} :
              VariantView(redis', other) = VariantView(redis, other)]_vars

\* C19: a lookup, a scan or a similarity query that names an embedding type
\* which is not a known variant is answered with nothing (None, the empty
\* dict, the empty list), never with the data of a variant.
C19_UnknownVariantIsEmpty ==
    /\ (resp.op = "get" /\ resp.embedding_type \notin Variants) => resp.record = None
    /\ (resp.op = "scan" /\ resp.embedding_type \notin Variants) => resp.embeddings = << >>
    /\ (resp.op = "find" /\ resp.embedding_type \notin Variants) => resp.similar_data = << >>

\* The item names a scan of a variant answers, whatever order KEYS gave.
ScannedNames(store, variant, keys) ==
    {e.name : e \in Range(get_all_embeddings(store, variant, keys))}

\* C16: once a loader run has stored its batch of a variant, a scan of that
\* variant holds the items of that batch and no others: an item of an
\* earlier batch that the new batch leaves out is gone.
C16_ReloadReplacesVariant ==
    run.pc = "done" =>
        \A keys \in KeyOrders(MatchingKeys(redis, run.variant)) :
            ScannedNames(redis, run.variant, keys) = DOMAIN run.embeddings

\* The batch whose store loop wrote the vector a finished scan read for an
\* item, and whether the scan holds for an item of batch g a vector that an
\* earlier batch wrote and batch g replaces, next to a vector batch g wrote.
ReadBatch(name) == resp.read_of[name]
MixedScan ==
    \E g \in 2..Len(resp.history) :
        /\ \E a \in Range(resp.embeddings) :
              /\ a.name \in DOMAIN resp.history[g]
              /\ ReadBatch(a.name) < g
              /\ a.data.embedding # resp.history[g][a.name]
        /\ \E b \in Range(resp.embeddings) :
              /\ ReadBatch(b.name) = g
              /\ b.name \in DOMAIN resp.history[g - 1] =>
                    b.data.embedding # resp.history[g - 1][b.name]

\* C17: a reader that lists the keys and then reads them one by one next to a
\* reload can come back with old and new vectors side by side (the witness);
\* every vector it holds is the one some batch wrote for that item, and it
\* holds such a mix only when the loader was storing during the scan.
C17_MixOnlyDuringReload ==
    resp.op = "concurrent_scan" =>
        /\ \A e \in Range(resp.embeddings) :
              /\ e.name \in DOMAIN resp.read_of
              /\ ReadBatch(e.name) \in 1..Len(resp.history)
              /\ e.name \in DOMAIN resp.history[ReadBatch(e.name)]
              /\ e.data.embedding = resp.history[ReadBatch(e.name)][e.name]
        /\ MixedScan => resp.overlapped

C17_Witness_MixedScan ==
    /\ resp.op = "concurrent_scan"
    /\ MixedScan
    /\ resp.overlapped

\* C20: when the generator of a loader run raises, the run stores nothing:
\* the store is as it was when generation was called, no embedding is held
\* for storing, and the generator's self.item_embeddings is as it was.
C20_FailedGenerationStoresNothing ==
    run.pc = "failed" =>
        /\ redis = run.before.redis
        /\ self_item_embeddings = run.before.self_item_embeddings
        /\ run.embeddings = EmptyMap
        /\ run.todo = << >>

\* A run of a variant has failed while an earlier batch of it is stored.
C20_Witness_FailedAfterBatch ==
    /\ run.pc = "failed"
    /\ run.runs > 1
    /\ MatchingKeys(redis, run.variant) # {}

\* C18: a similar-to-item or basket request that meets a failing store read
\* (the lookup of an item's embedding or the scan of the embeddings) either
\* reports the failure or answers the popularity fallback; it does not
\* answer an empty similarity list as if nothing were similar.
C18_FailedReadNotMaskedAsEmpty ==
    (/\ resp.op \in {"similar_failing", "basket_failing"}
     /\ resp.faults.lookup \/ resp.faults.scan
     /\ resp.limit >= 1) =>
        \/ resp.raised
        \/ resp.items = RecommendationService_get_popular_items(redis, resp.limit)

\* The rows the claim lets through: order id and item name present, the name
\* not empty once trimmed; the name is kept trimmed.
AcceptedRows(rows) ==
    SelectSeq([i \in 1..Len(rows) |->
                 [order_id |-> rows[i].order_id,
                  item_name |-> StrStrip(rows[i].item_name)]],
              LAMBDA r : /\ r.order_id # NaNOrder
                         /\ r.item_name # NaN
                         /\ r.item_name # << >>)

\* C21: the tables built from what load_data keeps are the tables built from
\* the accepted rows alone: a row without order id or item name, or with a
\* name that is empty once trimmed, adds nothing to frequency, co-occurrence
\* or order index, and every other row of the input still counts.
C21_RejectedRowsCountNothing ==
    [][(pc = "new" /\ pc' = "loaded") =>
          build_cooccurrence_matrix(NewTables, df') =
              build_cooccurrence_matrix(NewTables, AcceptedRows(df))]_vars

\* C22: an order request, for an order id of the data or for any other, is
\* answered exactly what the popular request answers for the same limit on
\* the same store.
C22_OrderIsPopular ==
    resp.op = "order" =>
        resp.items = RecommendationService_get_popular_items(redis, resp.limit)

\* An order that was never ingested is answered a popular list of two.
C22_Witness_UnknownOrder ==
    /\ resp.op = "order"
    /\ resp.order_id \notin DOMAIN order_items
    /\ pc = "stored"
    /\ Len(resp.items) = 2
    /\ resp.items[1].popularity_rank = 1

\* The keys that hold an embedding record, whatever their variant.
EmbeddingKeys(store) ==
    {k \in DOMAIN store :
        store[k].type = "hash" /\ "embedding" \in DOMAIN store[k].fields}

StoredVector(store, key) == JsonLoads(store[key].fields.embedding)

WellFormedOnly(store) == [k \in EmbeddingKeys(store) |-> store[k]]

\* The keys under a variant's prefix that hold no embedding record.
MalformedKeys(store, variant) == MatchingKeys(store, variant) \ EmbeddingKeys(store)

C25_MatrixIndexSorted ==
    resp.op = "matrix" =>
        LET b == resp.built
            n == Cardinality(DOMAIN item_cooccurrence)
        IN /\ DOMAIN b.index_item = 0..(n - 1)
           /\ DOMAIN b.item_index = DOMAIN item_cooccurrence
           /\ \A i, j \in 0..(n - 1) :
                 i < j => StrLess(b.index_item[i], b.index_item[j])
           /\ \A i \in 0..(n - 1) : b.item_index[b.index_item[i]] = i
           /\ \A a \in DOMAIN item_cooccurrence : b.index_item[b.item_index[a]] = a
           /\ \A a, c \in DOMAIN item_cooccurrence :
                 b.cooccurrence_matrix[b.item_index[a]][b.item_index[c]] =
                     [log1p |-> IF c \in DOMAIN item_cooccurrence[a]
                                THEN item_cooccurrence[a][c] ELSE 0]
           /\ \A keys \in KeyOrders(DOMAIN item_cooccurrence) :
                 EmbeddingService_build_cooccurrence_matrix(keys, item_cooccurrence) = b

\* A matrix of three items built from keys held in another order than the
\* sorted one, with a cell of count 0 and a cell of count 1.
C25_Witness_UnsortedKeys ==
    /\ resp.op = "matrix"
    /\ Len(resp.keys) = 3
    /\ StrLess(resp.keys[3], resp.keys[1])
    /\ \E i, j \in 0..2 : resp.built.cooccurrence_matrix[i][j].log1p = 0
    /\ \E i, j \in 0..2 : resp.built.cooccurrence_matrix[i][j].log1p = 1

ProcessorReads ==
    {"get_item_stats", "_get_popularity_rank", "get_popular_items",
     "get_similar_items", "get_order_items"}

\* C26: after any read operation of the processor, for names and order ids
\* of the data or not, item_cooccurrence, item_frequency and order_items are
\* what they were before it: no count changes and no key comes into being.
C26_ReadsKeepTables ==
    resp.op \in ProcessorReads => Tables = resp.before

\* get_similar_items has been asked about an item that has no row, in a
\* processor that holds rows for other items.
C26_Witness_UnknownItem ==
    /\ resp.op = "get_similar_items"
    /\ resp.args[1] \notin DOMAIN resp.before.item_cooccurrence
    /\ DOMAIN resp.before.item_cooccurrence # {}

\* C27: for both variants the similar-items endpoint answers the items the
\* store's find_similar_items_by_embedding returns for the same item, limit
\* and variant, with the same scores and in the same order.
C27_RouterAnswersStoreResult ==
    resp.op = "router_similar" =>
        /\ ~resp.raised
        /\ Len(resp.recommendations) = Len(resp.similar_data)
        /\ \A k \in 1..Len(resp.similar_data) :
              /\ resp.recommendations[k].item_name = resp.similar_data[k].item
              /\ resp.recommendations[k].similarity_score =
                     resp.similar_data[k].similarity

\* C28: a scan of a variant answers every entry written for an item name n
\* under that variant under exactly the name n, with the record stored for n,
\* also when n itself contains 'item:' or 'hf:'; and no two stored names come
\* back under one name, so the scan answers as many entries as are stored.
C28_ScanNamesRoundTrip ==
    resp.op = "scan" =>
        /\ \A n \in StoreNames :
              ItemKey(n, resp.embedding_type) \in EmbeddingKeys(redis) =>
                 \E k \in 1..Len(resp.embeddings) :
                    /\ resp.embeddings[k].name = n
                    /\ resp.embeddings[k].data =
                           EmbeddingRecord(redis[ItemKey(n, resp.embedding_type)].fields,
                                           resp.embedding_type)
        /\ Len(resp.embeddings) =
               Cardinality(MatchingKeys(redis, resp.embedding_type)
                               \cap EmbeddingKeys(redis))

\* The items that stand in some order at a list position that has another
\* list position beside it.
SharesAnOrder(item) ==
    \E o \in DOMAIN order_items :
       \E i, j \in 1..Len(order_items[o]) :
          i # j /\ order_items[o][i] = item

\* C29: the vocabulary of the factorization variant is the key set of
\* item_cooccurrence, which is the set of items that share an order with
\* another list position; an item that occurs in single-item orders only has
\* a frequency of at least 1 but no matrix row and no factorization vector.
C29_VocabularyIsCooccurrenceKeys ==
    (resp.op = "factorized" /\ ~resp.raised) =>
        LET vocabulary == {resp.index_item[idx] : idx \in DOMAIN resp.index_item}
        IN /\ vocabulary = DOMAIN item_cooccurrence
           /\ DOMAIN resp.item_embeddings = vocabulary
           /\ \A k \in 1..Len(item_frequency) :
                 /\ item_frequency[k].frequency >= 1
                 /\ item_frequency[k].item \in vocabulary
                       <=> SharesAnOrder(item_frequency[k].item)

\* Vectors were generated from a data set in which one item stands alone in
\* its order and two others share an order: the first has a frequency and no
\* vector, the others have vectors.
C29_Witness_SingleItemOrder ==
    /\ resp.op = "factorized"
    /\ ~resp.raised
    /\ \E k \in 1..Len(item_frequency) :
          /\ ~SharesAnOrder(item_frequency[k].item)
          /\ item_frequency[k].item \notin DOMAIN resp.item_embeddings
    /\ Cardinality(DOMAIN resp.item_embeddings) >= 2

\* An item of the catalogue has a vector in the store, and the vector.
HasVector(item) == ItemKey(item, "cooccurrence") \in EmbeddingKeys(redis)
CandidateVector(item) == get_item_embedding(redis, item, "cooccurrence").embedding

\* A candidate vector the cosine is not defined for against the query: of
\* another length, or of norm zero.
Unscorable(vector, query) == Len(vector) # Len(query) \/ NormSq(vector) = 0

\* The candidate stands in the ranking with the score 0.0, before every
\* entry with a negative score.
RankedAtZero(ranking, item) ==
    \E k \in 1..Len(ranking) :
       /\ ranking[k].item = item
       /\ ranking[k].similarity = ZeroScore
       /\ \A j \in 1..Len(ranking) : ranking[j].similarity.sgn < 0 => k < j

====
